---- MODULE Spec2Model ----
(***************************************************************************)
(* Benchmark result analysis of monistowl/gat:                             *)
(*   examples/scripts/analyze_benchmarks.py  (suite drivers, LaTeX data)   *)
(*   validation_results/analyze_results.py   (multi-method comparison)     *)
(*                                                                         *)
(* Numbers.  A Python float is modelled by an integer in a fixed unit per  *)
(* field: solve times in ms, objective_gap_rel in units of 1e-2 (so that   *)
(* "* 100" is an integer percentage times 100), max_vm_violation_pu in     *)
(* units of 1e-7 p.u., max_branch_flow_violation_mva in units of 1e-4 MVA. *)
(* A quotient (a mean, a rate) is kept exact as [num, den].                *)
(*                                                                         *)
(* CSV cells.  csv.DictReader yields one text per cell; a cell is          *)
(*   [kind |-> "num",  v |-> n]   a text float() and int() parse to n      *)
(*   [kind |-> "text", v |-> 0]   a text they do not parse ("abc", "")     *)
(*   [kind |-> "none", v |-> 0]   None: a row shorter than the header      *)
(***************************************************************************)
EXTENDS Integers, Sequences, FiniteSets, TLC

VARIABLES
    files,      \* results_dir of analyze_benchmarks.py: file name -> [exists, rows]
    pc,         \* position of analyze_benchmarks.main
    exc,        \* exception that ended analyze_benchmarks.main ("none" if none)
    pglib,      \* what analyze_pglib printed
    pfdelta,    \* what analyze_pfdelta printed
    opfdata,    \* what analyze_opfdata printed
    latex,      \* what generate_latex_table printed
    mfiles,     \* directory of analyze_results.py: file name -> [exists, rows]
    mpc,        \* position of analyze_results.main
    mi,         \* index into methods of the loop of analyze_results.main
    mexc,       \* exception that ended analyze_results.main ("none" if none)
    all_stats,  \* all_stats of analyze_results.main
    samples,    \* the "Sample cases" lines printed, one list per loaded method
    summary_table,  \* rows printed by print_summary_table
    latex_table     \* rows printed by print_latex_table

avars == <<files, pc, exc, pglib, pfdelta, opfdata, latex>>
bvars == <<mfiles, mpc, mi, mexc, all_stats, samples, summary_table, latex_table>>
vars == <<avars, bvars>>

----------------------------------------------------------------------------
(* Bounds of the model *)

\* longest file whose rows are drawn freely from a row universe
MaxRows == 2

\* longest file in the specifications that exercise the percentile indices
MaxLongRows == 11

----------------------------------------------------------------------------
(* Values and helpers *)

Num(n) == [kind |-> "num", v |-> n]
Text == [kind |-> "text", v |-> 0]
None == [kind |-> "none", v |-> 0]

\* an optional value: <<>> (absent) or <<x>>
Absent == <<>>
Some(x) == <<x>>

Rat(n, d) == [num |-> n, den |-> d]
RatEq(a, b) == a.num * b.den = b.num * a.den

RECURSIVE Sum(_)
Sum(s) == IF s = <<>> THEN 0 ELSE Head(s) + Sum(Tail(s))

RECURSIVE Flatten(_)
Flatten(ss) == IF ss = <<>> THEN <<>> ELSE Head(ss) \o Flatten(Tail(ss))

RECURSIVE Insert(_, _)
Insert(x, s) ==
    IF s = <<>> THEN <<x>>
    ELSE IF x < Head(s) THEN <<x>> \o s
    ELSE <<Head(s)>> \o Insert(x, Tail(s))

\* Python's sorted() / list.sort() on numbers: ascending
RECURSIVE sorted(_)
sorted(s) == IF s = <<>> THEN <<>> ELSE Insert(Head(s), sorted(Tail(s)))

\* Python's s[i] for 0 <= i < len(s)
At(s, i) == s[i + 1]

\* str.lower() on the texts a converged cell holds in this model
lower(s) ==
    CASE s = "True" -> "true"
      [] s = "TRUE" -> "true"
      [] s = "False" -> "false"
      [] OTHER -> s

----------------------------------------------------------------------------
(* analyze_benchmarks.py *)

safe_float(val) == IF val.kind = "num" THEN val.v ELSE 0

\* the exception int(val) raises, "none" when it parses
int_exc(val) ==
    CASE val.kind = "num" -> "none"
      [] val.kind = "text" -> "ValueError"
      [] OTHER -> "TypeError"

load_csv(path) == files[path].rows

exists(path) == files[path].exists

is_converged(r) == lower(r.converged) = "true"

converged_of(data) == SelectSeq(data, is_converged)

solve_times_of(converged) ==
    [i \in 1..Len(converged) |-> safe_float(converged[i].solve_time_ms)]

has_objective(r) == safe_float(r.objective_value) > 0

\* the filter of analyze_method (baseline_objective > 0) in place of line 52's
pglib_gap_records_by_baseline(converged) ==
    SelectSeq(converged, LAMBDA r : safe_float(r.baseline_objective) > 0)

\* analyze_pglib / generate_latex_table: the records the gap metrics are taken over
pglib_gap_records(converged) == SelectSeq(converged, has_objective)

gaps_of(records) ==
    [i \in 1..Len(records) |-> safe_float(records[i].objective_gap_rel)]

median_idx(s) == Len(s) \div 2

\* solve-time block of analyze_pglib (s sorted, non-empty)
time_stats(s) ==
    [median |-> At(s, median_idx(s)),
     mean   |-> Rat(Sum(s), Len(s)),
     min    |-> At(s, 0),
     max    |-> At(s, Len(s) - 1)]

\* objective-gap block of analyze_pglib (s sorted, non-empty), in percent
gap_stats(s) ==
    [median |-> At(s, median_idx(s)) * 100,
     mean   |-> Rat(Sum(s) * 100, Len(s)),
     min    |-> At(s, 0) * 100,
     max    |-> At(s, Len(s) - 1) * 100]

conv_line(converged, total) ==
    [converged |-> Len(converged), total |-> total,
     rate |-> Rat(100 * Len(converged), total)]

Small == "small (<500 buses)"
Medium == "medium (500-2000 buses)"
Large == "large (>2000 buses)"

\* sorted(sizes.items()) orders the categories as texts
CategoriesSorted == <<Large, Medium, Small>>

category_lenient(buses) ==
    IF buses <= 500 THEN Small ELSE IF buses <= 2000 THEN Medium ELSE Large

category(buses) ==
    IF buses < 500 THEN Small ELSE IF buses < 2000 THEN Medium ELSE Large

\* sizes[c]: the converged records appended under category c (<<>>: no such key)
sizes_of(converged) ==
    [c \in {Small, Medium, Large} |->
        SelectSeq(converged, LAMBDA r : category(r.num_buses.v) = c)]

size_line(c, cases) ==
    [category |-> c, n |-> Len(cases),
     avg |-> Rat(Sum(solve_times_of(cases)), Len(cases))]

by_size_lines(sizes) ==
    LET present == SelectSeq(CategoriesSorted, LAMBDA c : sizes[c] # <<>>)
    IN  [i \in 1..Len(present) |-> size_line(present[i], sizes[present[i]])]

\* the exceptions int(r['num_buses']) raises over the converged records, in order
buses_excs(converged) ==
    SelectSeq([i \in 1..Len(converged) |-> int_exc(converged[i].num_buses)],
              LAMBDA e : e # "none")

NoSizes == [c \in {Small, Medium, Large} |-> <<>>]

Pending ==
    [status |-> "pending", conv |-> Absent, time |-> Absent, gap |-> Absent,
     sizes |-> NoSizes, by_size |-> <<>>]

PglibFile == "pglib_full.csv"
OpfdataFile == "opfdata_case118.csv"

\* what analyze_pglib prints for `data`, and how it ends
pglib_report(data) ==
    LET converged == converged_of(data)
        total == Len(data)
        solve_times == sorted(solve_times_of(converged))
        gaps == sorted(gaps_of(pglib_gap_records(converged)))
        printed ==
            [status |-> "raised", conv |-> Some(conv_line(converged, total)),
             time |-> IF solve_times # <<>> THEN Some(time_stats(solve_times)) ELSE Absent,
             gap |-> IF gaps # <<>> THEN Some(gap_stats(gaps)) ELSE Absent,
             sizes |-> NoSizes, by_size |-> <<>>]
    IN  IF total = 0
        THEN [rep |-> [Pending EXCEPT !.status = "raised"], exc |-> "ZeroDivisionError"]
        ELSE IF buses_excs(converged) # <<>>
        THEN [rep |-> printed, exc |-> Head(buses_excs(converged))]
        ELSE [rep |-> [printed EXCEPT !.status = "ok",
                                      !.sizes = sizes_of(converged),
                                      !.by_size = by_size_lines(sizes_of(converged))],
              exc |-> "none"]

analyze_pglib ==
    /\ pc = "analyze_pglib"
    /\ IF ~exists(PglibFile)
       THEN /\ pglib' = [Pending EXCEPT !.status = "not_found"]
            /\ pc' = "analyze_pfdelta"
            /\ exc' = exc
       ELSE LET r == pglib_report(load_csv(PglibFile))
            IN  /\ pglib' = r.rep
                /\ exc' = r.exc
                /\ pc' = IF r.exc = "none" THEN "analyze_pfdelta" ELSE "raised"
    /\ UNCHANGED <<files, pfdelta, opfdata, latex, bvars>>

----------------------------------------------------------------------------
(* analyze_pfdelta *)

Cases == <<"case30", "case57", "case118">>
Contingencies == <<"n", "n1", "n2">>

pfdelta_file(case, contingency) ==
    "pfdelta_" \o case \o "_" \o contingency \o ".csv"

PfdeltaFiles ==
    {pfdelta_file(Cases[i], Contingencies[j]) : i \in 1..3, j \in 1..3}

FileNames == {PglibFile, OpfdataFile} \cup PfdeltaFiles

\* the data of the files of `case` that exist, in contingency order
case_data(case) ==
    LET paths == [j \in 1..Len(Contingencies) |-> pfdelta_file(case, Contingencies[j])]
        found == SelectSeq(paths, exists)
    IN  [j \in 1..Len(found) |-> load_csv(found[j])]

case_samples_of(case) ==
    Sum([j \in 1..Len(case_data(case)) |-> Len(case_data(case)[j])])

case_converged_of(case) ==
    Sum([j \in 1..Len(case_data(case)) |-> Len(converged_of(case_data(case)[j]))])

\* the times of all the records, converged or not
case_times_of_all_rows(case) ==
    Flatten([j \in 1..Len(case_data(case)) |-> solve_times_of(case_data(case)[j])])

case_times_of(case) ==
    Flatten([j \in 1..Len(case_data(case)) |->
                solve_times_of(converged_of(case_data(case)[j]))])

case_line(case) ==
    [case |-> case,
     converged |-> case_converged_of(case),
     samples |-> case_samples_of(case),
     rate |-> Rat(100 * case_converged_of(case), case_samples_of(case)),
     avg_time |-> IF case_times_of(case) # <<>>
                  THEN Rat(Sum(case_times_of(case)), Len(case_times_of(case)))
                  ELSE Rat(0, 1)]

\* the cases that print a line: those with case_samples > 0
cases_counted == SelectSeq(Cases, LAMBDA c : case_samples_of(c) > 0)

pfdelta_report ==
    LET counted == cases_counted
        total_samples == Sum([i \in 1..Len(counted) |-> case_samples_of(counted[i])])
        total_converged == Sum([i \in 1..Len(counted) |-> case_converged_of(counted[i])])
        all_solve_times ==
            sorted(Flatten([i \in 1..Len(counted) |-> case_times_of(counted[i])]))
    IN  [status |-> "ok",
         cases |-> [i \in 1..Len(counted) |-> case_line(counted[i])],
         total |-> IF total_samples > 0
                   THEN Some([converged |-> total_converged, samples |-> total_samples,
                              rate |-> Rat(100 * total_converged, total_samples)])
                   ELSE Absent,
         overall |-> IF all_solve_times # <<>>
                     THEN Some([median |-> At(all_solve_times, median_idx(all_solve_times)),
                                mean |-> Rat(Sum(all_solve_times), Len(all_solve_times))])
                     ELSE Absent]

PfdeltaPending ==
    [status |-> "pending", cases |-> <<>>, total |-> Absent, overall |-> Absent]

analyze_pfdelta ==
    /\ pc = "analyze_pfdelta"
    /\ pfdelta' = pfdelta_report
    /\ pc' = "analyze_opfdata"
    /\ UNCHANGED <<files, exc, pglib, opfdata, latex, bvars>>

----------------------------------------------------------------------------
(* analyze_opfdata *)

p10_idx(s) == Len(s) \div 10

p90_idx_of_tenth(s) == 9 * (Len(s) \div 10)

p90_idx(s) == (9 * Len(s)) \div 10

\* solve-time block of analyze_opfdata (s sorted, non-empty)
opf_time_stats(s) ==
    [median |-> At(s, median_idx(s)),
     mean   |-> Rat(Sum(s), Len(s)),
     p10    |-> At(s, p10_idx(s)),
     p90    |-> At(s, p90_idx(s))]

\* objective-gap block of analyze_opfdata (s sorted, non-empty), in percent
opf_gap_stats(s) ==
    [median |-> At(s, median_idx(s)) * 100,
     mean   |-> Rat(Sum(s) * 100, Len(s)),
     p10    |-> At(s, p10_idx(s)) * 100,
     p90    |-> At(s, p90_idx(s)) * 100]

OpfPending ==
    [status |-> "pending", conv |-> Absent, time |-> Absent, gap |-> Absent]

opfdata_report(data) ==
    LET converged == converged_of(data)
        total == Len(data)
        solve_times == sorted(solve_times_of(converged))
        gaps == sorted(gaps_of(converged))
    IN  IF total = 0
        THEN [rep |-> [OpfPending EXCEPT !.status = "raised"], exc |-> "ZeroDivisionError"]
        ELSE [rep |-> [status |-> "ok",
                       conv |-> Some(conv_line(converged, total)),
                       time |-> IF solve_times # <<>>
                                THEN Some(opf_time_stats(solve_times)) ELSE Absent,
                       gap |-> IF gaps # <<>>
                               THEN Some(opf_gap_stats(gaps)) ELSE Absent],
              exc |-> "none"]

analyze_opfdata ==
    /\ pc = "analyze_opfdata"
    /\ IF ~exists(OpfdataFile)
       THEN /\ opfdata' = [OpfPending EXCEPT !.status = "not_found"]
            /\ pc' = "generate_latex_table"
            /\ exc' = exc
       ELSE LET r == opfdata_report(load_csv(OpfdataFile))
            IN  /\ opfdata' = r.rep
                /\ exc' = r.exc
                /\ pc' = IF r.exc = "none" THEN "generate_latex_table" ELSE "raised"
    /\ UNCHANGED <<files, pglib, pfdelta, latex, bvars>>

----------------------------------------------------------------------------
(* generate_latex_table *)

\* sorted(xs)[len(xs)//2]: IndexError on an empty list
latex_median_raises(xs) == xs = <<>>

latex_median(xs) == At(sorted(xs), median_idx(xs))

\* the "PGLib:" / "OPFData:" line: counts, median solve time, median gap in percent
latex_suite_line(data, gap_records) ==
    [converged |-> Len(converged_of(data)),
     total |-> Len(data),
     median |-> latex_median(solve_times_of(converged_of(data))),
     gap |-> latex_median([i \in 1..Len(gap_records) |->
                              safe_float(gap_records[i].objective_gap_rel) * 100])]

latex_suite_raises(data, gap_records) ==
    \/ latex_median_raises(solve_times_of(converged_of(data)))
    \/ latex_median_raises(gap_records)

latex_pfdelta_line ==
    LET found == SelectSeq(
            Flatten([i \in 1..Len(Cases) |->
                [j \in 1..Len(Contingencies) |-> pfdelta_file(Cases[i], Contingencies[j])]]),
            exists)
        total_pf == Sum([k \in 1..Len(found) |-> Len(load_csv(found[k]))])
        total_pf_conv == Sum([k \in 1..Len(found) |-> Len(converged_of(load_csv(found[k])))])
    IN  IF total_pf > 0
        THEN Some([converged |-> total_pf_conv, total |-> total_pf,
                   rate |-> Rat(100 * total_pf_conv, total_pf)])
        ELSE Absent

LatexPending ==
    [status |-> "pending", pglib |-> Absent, pfdelta |-> Absent, opfdata |-> Absent]

latex_report ==
    LET pdata == load_csv(PglibFile)
        pgaps == pglib_gap_records(converged_of(pdata))
        odata == load_csv(OpfdataFile)
        ogaps == converged_of(odata)
        pline == IF exists(PglibFile) THEN Some(latex_suite_line(pdata, pgaps)) ELSE Absent
        oline == IF exists(OpfdataFile) THEN Some(latex_suite_line(odata, ogaps)) ELSE Absent
    IN  IF exists(PglibFile) /\ latex_suite_raises(pdata, pgaps)
        THEN [rep |-> [LatexPending EXCEPT !.status = "raised"], exc |-> "IndexError"]
        ELSE IF exists(OpfdataFile) /\ latex_suite_raises(odata, ogaps)
        THEN [rep |-> [status |-> "raised", pglib |-> pline,
                       pfdelta |-> latex_pfdelta_line, opfdata |-> Absent],
              exc |-> "IndexError"]
        ELSE [rep |-> [status |-> "ok", pglib |-> pline,
                       pfdelta |-> latex_pfdelta_line, opfdata |-> oline],
              exc |-> "none"]

generate_latex_table ==
    /\ pc = "generate_latex_table"
    /\ latex' = latex_report.rep
    /\ exc' = latex_report.exc
    /\ pc' = IF latex_report.exc = "none" THEN "done" ELSE "raised"
    /\ UNCHANGED <<files, pglib, pfdelta, opfdata, bvars>>

\* analyze_benchmarks.main: the four stages in order
NextBench ==
    \/ analyze_pglib
    \/ analyze_pfdelta
    \/ analyze_opfdata
    \/ generate_latex_table

----------------------------------------------------------------------------
(* analyze_results.py *)

\* the int/float fields of BenchmarkResult, in the order load_results converts them
NumericFields ==
    <<"load_time_ms", "solve_time_ms", "total_time_ms", "iterations", "num_buses",
      "num_branches", "num_gens", "objective_value", "baseline_objective",
      "objective_gap_abs", "objective_gap_rel", "max_vm_violation_pu",
      "max_gen_p_violation_mw", "max_branch_flow_violation_mva">>

\* the exception float(val) / int(val) raises, "none" when it parses
float_exc(val) ==
    CASE val.kind = "num" -> "none"
      [] val.kind = "text" -> "ValueError"
      [] OTHER -> "TypeError"

\* float(val) / int(val) of a text that parses
float_of(val) == val.v

row_excs(row) ==
    SelectSeq([k \in 1..Len(NumericFields) |-> float_exc(row[NumericFields[k]])],
              LAMBDA e : e # "none")

\* the exceptions the conversions of load_results raise, in row and field order
load_excs(rows) == Flatten([i \in 1..Len(rows) |-> row_excs(rows[i])])

BenchmarkResult(row) ==
    [case_name |-> row.case_name,
     load_time_ms |-> float_of(row.load_time_ms),
     solve_time_ms |-> float_of(row.solve_time_ms),
     total_time_ms |-> float_of(row.total_time_ms),
     converged |-> lower(row.converged) = "true",
     iterations |-> float_of(row.iterations),
     num_buses |-> float_of(row.num_buses),
     num_branches |-> float_of(row.num_branches),
     num_gens |-> float_of(row.num_gens),
     objective_value |-> float_of(row.objective_value),
     baseline_objective |-> float_of(row.baseline_objective),
     objective_gap_abs |-> float_of(row.objective_gap_abs),
     objective_gap_rel |-> float_of(row.objective_gap_rel),
     max_vm_violation_pu |-> float_of(row.max_vm_violation_pu),
     max_gen_p_violation_mw |-> float_of(row.max_gen_p_violation_mw),
     max_branch_flow_violation_mva |-> float_of(row.max_branch_flow_violation_mva)]

\* load_results(filepath) when no conversion raises
load_results(rows) == [i \in 1..Len(rows) |-> BenchmarkResult(rows[i])]

\* statistics.mean
mean(xs) == Rat(Sum(xs), Len(xs))

\* statistics.median: the middle element, or the mean of the two middle elements
median(xs) ==
    LET s == sorted(xs)
        n == Len(xs)
    IN  IF n % 2 = 1
        THEN Rat(At(s, n \div 2), 1)
        ELSE Rat(At(s, n \div 2 - 1) + At(s, n \div 2), 2)

RECURSIVE max(_)
max(xs) ==
    IF Len(xs) = 1 THEN Head(xs)
    ELSE IF Head(xs) >= max(Tail(xs)) THEN Head(xs) ELSE max(Tail(xs))

RECURSIVE min(_)
min(xs) ==
    IF Len(xs) = 1 THEN Head(xs)
    ELSE IF Head(xs) <= min(Tail(xs)) THEN Head(xs) ELSE min(Tail(xs))

\* the tolerances of lines 102 and 103, in the units of the two fields
VmTol == 10
BranchTol == 10

vm_violates_or_equal(v) == v >= VmTol

\* the branch tolerance 1e-3 taken for the voltage magnitude (1e-3 p.u. = 10000 units)
vm_violates_branch_tol(v) == v > 1000 * BranchTol

vm_violates(v) == v > VmTol

branch_violates(v) == v > BranchTol

\* analyze_method returns {} for no results
EmptyStats ==
    [empty |-> TRUE, method |-> "", total_cases |-> 0, converged |-> 0,
     convergence_rate |-> Rat(0, 1),
     solve_time_mean_ms |-> Absent, solve_time_median_ms |-> Absent,
     solve_time_max_ms |-> Absent, iterations_mean |-> Absent,
     objective_gap_mean_pct |-> Absent, objective_gap_median_pct |-> Absent,
     objective_gap_max_pct |-> Absent, objective_gap_min_pct |-> Absent,
     vm_violation_max_pu |-> 0, gen_violation_max_mw |-> 0,
     branch_violation_max_mva |-> 0,
     cases_with_vm_violation |-> 0, cases_with_branch_violation |-> 0]

field_of(records, f) == [i \in 1..Len(records) |-> records[i][f]]

analyze_method(name, results) ==
    LET converged == SelectSeq(results, LAMBDA r : r.converged)
        with_baseline == SelectSeq(converged, LAMBDA r : r.baseline_objective > 0)
        solve_times == field_of(converged, "solve_time_ms")
        gaps == [i \in 1..Len(with_baseline) |-> with_baseline[i].objective_gap_rel * 100]
        vm_violations == field_of(converged, "max_vm_violation_pu")
        gen_violations == field_of(converged, "max_gen_p_violation_mw")
        branch_violations == field_of(converged, "max_branch_flow_violation_mva")
    IN  IF results = <<>> THEN EmptyStats
        ELSE
        [empty |-> FALSE,
         method |-> name,
         total_cases |-> Len(results),
         converged |-> Len(converged),
         convergence_rate |-> Rat(Len(converged) * 100, Len(results)),
         solve_time_mean_ms |-> IF converged # <<>> THEN Some(mean(solve_times)) ELSE Absent,
         solve_time_median_ms |-> IF converged # <<>> THEN Some(median(solve_times)) ELSE Absent,
         solve_time_max_ms |-> IF converged # <<>> THEN Some(max(solve_times)) ELSE Absent,
         iterations_mean |-> IF converged # <<>>
                             THEN Some(mean(field_of(converged, "iterations"))) ELSE Absent,
         objective_gap_mean_pct |-> IF with_baseline # <<>> THEN Some(mean(gaps)) ELSE Absent,
         objective_gap_median_pct |-> IF with_baseline # <<>> THEN Some(median(gaps)) ELSE Absent,
         objective_gap_max_pct |-> IF with_baseline # <<>> THEN Some(max(gaps)) ELSE Absent,
         objective_gap_min_pct |-> IF with_baseline # <<>> THEN Some(min(gaps)) ELSE Absent,
         vm_violation_max_pu |-> IF vm_violations # <<>> THEN max(vm_violations) ELSE 0,
         gen_violation_max_mw |-> IF gen_violations # <<>> THEN max(gen_violations) ELSE 0,
         branch_violation_max_mva |->
             IF branch_violations # <<>> THEN max(branch_violations) ELSE 0,
         cases_with_vm_violation |-> Len(SelectSeq(vm_violations, vm_violates)),
         cases_with_branch_violation |-> Len(SelectSeq(branch_violations, branch_violates))]

\* methods of main, in dict order
Methods == <<"DC-OPF", "SOCP", "AC-OPF">>
MethodFiles == <<"pglib_dc.csv", "pglib_socp.csv", "pglib_ac.csv">>

\* Python's xs[:5]
first5(xs) == SubSeq(xs, 1, IF Len(xs) < 5 THEN Len(xs) ELSE 5)

sample_line(r) ==
    [case_name |-> r.case_name,
     obj |-> r.objective_value,
     gap |-> IF r.baseline_objective > 0 THEN Some(r.objective_gap_rel * 100) ELSE Absent,
     time |-> r.solve_time_ms]

\* one iteration of the loop of main, for Methods[mi]
method_step ==
    /\ mpc = "loop"
    /\ LET rows == mfiles[MethodFiles[mi]].rows
           results == load_results(rows)
       IN  IF ~mfiles[MethodFiles[mi]].exists
           THEN /\ mpc' = IF mi = Len(Methods) THEN "print_summary_table" ELSE "loop"
                /\ mi' = mi + 1
                /\ UNCHANGED <<mexc, all_stats, samples>>
           ELSE IF load_excs(rows) # <<>>
           THEN /\ mpc' = "raised"
                /\ mexc' = Head(load_excs(rows))
                /\ UNCHANGED <<mi, all_stats, samples>>
           ELSE /\ all_stats' = Append(all_stats, analyze_method(Methods[mi], results))
                /\ samples' = Append(samples,
                       [k \in 1..Len(first5(results)) |-> sample_line(first5(results)[k])])
                /\ mpc' = IF mi = Len(Methods) THEN "print_summary_table" ELSE "loop"
                /\ mi' = mi + 1
                /\ mexc' = mexc
    /\ UNCHANGED <<mfiles, summary_table, latex_table, avars>>

\* stats.get(key, 0) of a metric kept as a quotient
get0(opt) == IF opt = Absent THEN Rat(0, 1) ELSE opt[1]

nonempty(stats_list) == SelectSeq(stats_list, LAMBDA st : ~st.empty)

summary_row(st) ==
    [method |-> st.method, converged |-> st.converged, total_cases |-> st.total_cases,
     convergence_rate |-> st.convergence_rate,
     objective_gap_mean_pct |-> get0(st.objective_gap_mean_pct),
     solve_time_mean_ms |-> get0(st.solve_time_mean_ms),
     vm_violation_max_pu |-> st.vm_violation_max_pu,
     branch_violation_max_mva |-> st.branch_violation_max_mva]

print_summary_table ==
    /\ mpc = "print_summary_table"
    /\ summary_table' =
           [k \in 1..Len(nonempty(all_stats)) |-> summary_row(nonempty(all_stats)[k])]
    /\ mpc' = "print_latex_table"
    /\ UNCHANGED <<mfiles, mi, mexc, all_stats, samples, latex_table, avars>>

\* the time column read from solve_time_max_ms instead of solve_time_mean_ms
latex_row_max_time(st) ==
    [method |-> st.method, converged |-> st.converged, total_cases |-> st.total_cases,
     objective_gap_mean_pct |-> get0(st.objective_gap_mean_pct),
     solve_time_mean_ms |-> IF st.solve_time_max_ms = Absent THEN Rat(0, 1)
                            ELSE Rat(st.solve_time_max_ms[1], 1),
     vm_violation_max_pu |-> st.vm_violation_max_pu,
     branch_violation_max_mva |-> st.branch_violation_max_mva]

latex_row(st) ==
    [method |-> st.method, converged |-> st.converged, total_cases |-> st.total_cases,
     objective_gap_mean_pct |-> get0(st.objective_gap_mean_pct),
     solve_time_mean_ms |-> get0(st.solve_time_mean_ms),
     vm_violation_max_pu |-> st.vm_violation_max_pu,
     branch_violation_max_mva |-> st.branch_violation_max_mva]

print_latex_table ==
    /\ mpc = "print_latex_table"
    /\ latex_table' =
           [k \in 1..Len(nonempty(all_stats)) |-> latex_row(nonempty(all_stats)[k])]
    /\ mpc' = "done"
    /\ UNCHANGED <<mfiles, mi, mexc, all_stats, samples, summary_table, avars>>

\* analyze_results.main
NextMethods ==
    \/ method_step
    \/ print_summary_table
    \/ print_latex_table

----------------------------------------------------------------------------
(* Inputs: the files the two programs find *)

\* a row of a CSV analyze_benchmarks.py reads
Row(conv, time, gap, obj, base, buses) ==
    [converged |-> conv, solve_time_ms |-> time, objective_gap_rel |-> gap,
     objective_value |-> obj, baseline_objective |-> base, num_buses |-> buses]

File(rows) == [exists |-> TRUE, rows |-> rows]
NoFile == [exists |-> FALSE, rows |-> <<>>]

\* all sequences over S of length lo..hi
SeqsOf(S, lo, hi) == UNION {[1..n -> S] : n \in lo..hi}

\* rows on both sides of the bucket limits, converged or not
SizeRows ==
    {Row(c, Num(p[1]), Num(5), Num(100), Num(100), Num(p[2])) :
        c \in {"true", "false"},
        p \in {<<10, 499>>, <<30, 500>>, <<20, 1999>>, <<40, 2000>>}}

\* converged rows with and without an objective, with and without a baseline
GapRows ==
    {Row("True", Num(50), Num(p[1]), Num(p[2]), Num(p[3]), Num(30)) :
        p \in {<<15, 100, 0>>, <<7, 0, 100>>, <<9, -5, 100>>, <<2, 100, -1>>}}

\* converged rows with a cell that does not parse
BadRows ==
    {Row("true", Num(10), Num(5), Num(100), Num(100), Text),
     Row("true", Text, None, Num(100), Num(100), Num(30)),
     Row("TRUE", Num(10), Text, Text, Num(100), None)}

PglibRows == SizeRows \cup GapRows \cup BadRows

OpfShortRows ==
    {Row("true", Num(10), Num(5), Num(0), Num(0), Num(118)),
     Row("True", Num(30), Text, Num(100), Num(100), Num(118)),
     Row("false", Num(0), Num(0), Num(0), Num(0), Num(118))}

\* two converged rows whose order by time and by gap differ
OpfLongRows ==
    {Row("true", Num(1), Num(7), Num(100), Num(100), Num(118)),
     Row("true", Num(2), Num(3), Num(100), Num(100), Num(118))}

\* pfdelta_<case>_<contingency>.csv, when it exists
PfdeltaRows(case, contingency) ==
    CASE contingency = "n" ->
            <<Row("true", Num(5), Num(0), Num(0), Num(0), Num(30)),
              Row("true", Num(7), Num(0), Num(0), Num(0), Num(30))>>
      [] contingency = "n1" ->
            <<Row("True", Num(9), Num(0), Num(0), Num(0), Num(30)),
              Row("false", Num(0), Num(0), Num(0), Num(0), Num(30))>>
      [] contingency = "n2" /\ case = "case118" ->
            <<Row("TRUE", Text, Num(0), Num(0), Num(0), Num(30)),
              Row("true", Num(4), Num(0), Num(0), Num(0), Num(30))>>
      [] OTHER ->
            <<Row("false", Num(0), Num(0), Num(0), Num(0), Num(30))>>

PfdeltaRowsOf(f) ==
    CHOOSE rows \in {PfdeltaRows(Cases[i], Contingencies[j]) : i \in 1..3, j \in 1..3} :
        \E i \in 1..3, j \in 1..3 :
            f = pfdelta_file(Cases[i], Contingencies[j])
            /\ rows = PfdeltaRows(Cases[i], Contingencies[j])

BenchStart ==
    /\ pc = "analyze_pglib"
    /\ exc = "none"
    /\ pglib = Pending
    /\ pfdelta = PfdeltaPending
    /\ opfdata = OpfPending
    /\ latex = LatexPending

MethodFileNames == {MethodFiles[k] : k \in 1..Len(MethodFiles)}

\* analyze_results.main not run
MethodsIdle ==
    /\ mfiles = [f \in MethodFileNames |-> NoFile]
    /\ mpc = "idle"
    /\ mi = 1
    /\ mexc = "none"
    /\ all_stats = <<>>
    /\ samples = <<>>
    /\ summary_table = <<>>
    /\ latex_table = <<>>

BenchFiles(pg, opf, present) ==
    [f \in FileNames |->
        IF f = PglibFile THEN pg
        ELSE IF f = OpfdataFile THEN opf
        ELSE IF f \in present THEN File(PfdeltaRowsOf(f)) ELSE NoFile]

\* the full-network file varies freely; it may be absent or hold only its header
InitPglib ==
    /\ \E pg \in {NoFile} \cup {File(rows) : rows \in SeqsOf(PglibRows, 0, MaxRows)},
          opf \in {NoFile} \cup {File(rows) : rows \in SeqsOf(OpfShortRows, 0, 1)},
          present \in {{}, PfdeltaFiles} :
            files = BenchFiles(pg, opf, present)
    /\ BenchStart
    /\ MethodsIdle

SpecPglib == InitPglib /\ [][NextBench]_vars

\* the single-case AC file varies freely, up to MaxLongRows converged rows
InitOpf ==
    /\ \E opf \in {File(rows) : rows \in SeqsOf(OpfLongRows, 1, MaxLongRows)}
                  \cup {File(rows) : rows \in SeqsOf(OpfShortRows, 0, MaxRows)} :
            files = BenchFiles(NoFile, opf, {})
    /\ BenchStart
    /\ MethodsIdle

SpecOpf == InitOpf /\ [][NextBench]_vars

PglibGood ==
    <<Row("true", Num(10), Num(5), Num(100), Num(100), Num(30)),
      Row("true", Num(30), Num(15), Num(100), Num(100), Num(30)),
      Row("false", Num(0), Num(0), Num(0), Num(0), Num(30))>>

\* a converged run that reports no objective
PglibNoObjective ==
    <<Row("true", Num(10), Num(0), Num(0), Num(100), Num(30))>>

OpfGood ==
    <<Row("true", Num(10), Num(5), Num(100), Num(100), Num(118))>>

\* every subset of the expected files is present; each present file holds at least
\* one row, and all but the files of contingency n2 a converged one
InitMissing ==
    /\ \E pg \in {NoFile, File(PglibGood), File(PglibNoObjective)},
          opf \in {NoFile, File(OpfGood)},
          present \in SUBSET PfdeltaFiles :
            files = BenchFiles(pg, opf, present)
    /\ BenchStart
    /\ MethodsIdle

SpecMissing == InitMissing /\ [][NextBench]_vars

\* each of the nine contingency-sweep files is absent, holds only its header, or
\* holds its rows; the other two suites have no file
InitPfdelta ==
    /\ \E absent \in SUBSET PfdeltaFiles :
       \E header_only \in SUBSET (PfdeltaFiles \ absent) :
            files = [f \in FileNames |->
                        IF f \in PfdeltaFiles \ absent
                        THEN (IF f \in header_only THEN File(<<>>)
                              ELSE File(PfdeltaRowsOf(f)))
                        ELSE NoFile]
    /\ BenchStart
    /\ MethodsIdle

SpecPfdelta == InitPfdelta /\ [][NextBench]_vars

\* a row of a CSV analyze_results.py reads; the fields analyze_method does not
\* read are the same in every row
MRow(name, conv, time, base, gap, vm, branch) ==
    [case_name |-> name, load_time_ms |-> Num(1), solve_time_ms |-> time,
     total_time_ms |-> Num(1), converged |-> conv, iterations |-> Num(3),
     num_buses |-> Num(30), num_branches |-> Num(41), num_gens |-> Num(6),
     objective_value |-> Num(100), baseline_objective |-> base,
     objective_gap_abs |-> Num(1), objective_gap_rel |-> gap,
     max_vm_violation_pu |-> vm, max_gen_p_violation_mw |-> Num(0),
     max_branch_flow_violation_mva |-> branch]

\* violations below, at and above the two tolerances, converged or not
ViolRows ==
    {MRow("v", c, Num(20), Num(100), Num(5), Num(p[1]), Num(p[2])) :
        c \in {"true", "false"},
        p \in {<<0, 0>>, <<10, 10>>, <<11, 9>>, <<9, 11>>, <<20, 11>>}}

\* converged rows with different times and gaps, with and without a baseline
TimeRows ==
    {MRow("t", "True", Num(p[1]), Num(p[2]), Num(p[3]), Num(0), Num(0)) :
        p \in {<<10, 100, 5>>, <<30, 100, 15>>, <<35, 0, 8>>}}

\* rows with a cell that does not parse
BadMRows ==
    {MRow("b", "true", Text, Num(100), Num(5), Num(0), Num(0)),
     MRow("b", "false", Num(20), Num(100), Num(5), None, Num(0))}

MethodRows == ViolRows \cup TimeRows \cup BadMRows

\* converged rows with max_vm_violation_pu 0, 1e-7, 2e-6 and 1e-3
VmExample ==
    <<MRow("e1", "true", Num(20), Num(100), Num(5), Num(0), Num(0)),
      MRow("e2", "true", Num(20), Num(100), Num(5), Num(1), Num(0)),
      MRow("e3", "true", Num(20), Num(100), Num(5), Num(20), Num(0)),
      MRow("e4", "true", Num(20), Num(100), Num(5), Num(10000), Num(0))>>

NoneConverged ==
    <<MRow("n1", "false", Num(0), Num(0), Num(0), Num(0), Num(0))>>

BenchIdle ==
    /\ files = [f \in FileNames |-> NoFile]
    /\ pc = "idle"
    /\ exc = "none"
    /\ pglib = Pending
    /\ pfdelta = PfdeltaPending
    /\ opfdata = OpfPending
    /\ latex = LatexPending

\* pglib_dc.csv varies freely; the other two are absent or hold fixed rows
InitMethods ==
    /\ \E dc \in {NoFile} \cup {File(rows) : rows \in SeqsOf(MethodRows, 0, MaxRows)},
          socp \in {NoFile, File(VmExample)},
          ac \in {NoFile, File(<<>>), File(NoneConverged)} :
            mfiles = [f \in MethodFileNames |->
                        IF f = MethodFiles[1] THEN dc
                        ELSE IF f = MethodFiles[2] THEN socp ELSE ac]
    /\ mpc = "loop"
    /\ mi = 1
    /\ mexc = "none"
    /\ all_stats = <<>>
    /\ samples = <<>>
    /\ summary_table = <<>>
    /\ latex_table = <<>>
    /\ BenchIdle

SpecMethods == InitMethods /\ [][NextMethods]_vars

----------------------------------------------------------------------------
(* Reading the inputs, for the properties below: stated on the cells of the   *)
(* files, not through the programs' own functions                             *)

TrueTexts == {"true", "True", "TRUE"}

\* the indices of the rows of `rows` marked converged
ConvergedIdx(rows) == {i \in DOMAIN rows : rows[i].converged \in TrueTexts}

\* the number a cell stands for, 0.0 for a cell that is no number
Value(cell) == IF cell.kind = "num" THEN cell.v ELSE 0

\* x is the element at index k (from 0) of the ascending order of the values
\* val[i], i \in I
AtRank(x, val, I, k) ==
    /\ \E i \in I : val[i] = x
    /\ Cardinality({i \in I : val[i] < x}) <= k
    /\ k < Cardinality({i \in I : val[i] <= x})

\* the rows of the file Methods[k] was loaded from
RowsOf(method) ==
    LET k == CHOOSE k \in 1..Len(Methods) : Methods[k] = method
    IN  mfiles[MethodFiles[k]].rows

SolveTimes(rows) == [i \in DOMAIN rows |-> Value(rows[i].solve_time_ms)]

----------------------------------------------------------------------------
(* C1: every statistics path reports, as the median of a non-empty sequence,  *)
(* the element at index len // 2 of the sorted sequence (the upper median for *)
(* an even length), never the interpolated midpoint.  Stated here for         *)
(* analyze_method's solve_time_median_ms over the converged records.          *)
C1_MedianIsUpperMedian ==
    \A k \in DOMAIN all_stats :
        LET st == all_stats[k]
            rows == RowsOf(st.method)
            I == ConvergedIdx(rows)
        IN  st.solve_time_median_ms # Absent =>
                \E i \in I :
                    /\ RatEq(st.solve_time_median_ms[1], Rat(SolveTimes(rows)[i], 1))
                    /\ AtRank(SolveTimes(rows)[i], SolveTimes(rows), I,
                              Cardinality(I) \div 2)

(* C1, the suite drivers only: analyze_pglib, analyze_pfdelta's overall line  *)
(* and generate_latex_table report the upper median of the converged solve    *)
(* times (holds; it is analyze_method that interpolates).                     *)
C1_DriversUpperMedian ==
    LET rows == files[PglibFile].rows
        I == ConvergedIdx(rows)
    IN  /\ pglib.time # Absent =>
            AtRank(pglib.time[1].median, SolveTimes(rows), I, Cardinality(I) \div 2)
        /\ latex.pglib # Absent =>
            AtRank(latex.pglib[1].median, SolveTimes(rows), I, Cardinality(I) \div 2)

(* C2: the convergence rate is converged/total*100 over all the rows of the   *)
(* file, and a present file with no data row is skipped: nothing is divided   *)
(* by zero.                                                                   *)
C2_RateOrSkip ==
    /\ exc # "ZeroDivisionError"
    /\ \A rep \in {pglib, opfdata} :
            rep.conv # Absent =>
                /\ rep.conv[1].total > 0
                /\ RatEq(rep.conv[1].rate,
                         Rat(rep.conv[1].converged * 100, rep.conv[1].total))
    /\ (pglib.conv # Absent) =>
            /\ pglib.conv[1].total = Len(files[PglibFile].rows)
            /\ pglib.conv[1].converged = Cardinality(ConvergedIdx(files[PglibFile].rows))

(* C3: when a present file holds at least one row but no record qualifies for *)
(* a metric, every stage completes without raising and reports the metric as  *)
(* absent.                                                                    *)
C3_EmptySubsetNeverRaises ==
    (\A f \in {PglibFile, OpfdataFile} : files[f].exists => files[f].rows # <<>>)
        => /\ exc # "IndexError"
           /\ (pglib.status = "ok" /\ ConvergedIdx(files[PglibFile].rows) = {})
                  => (pglib.time = Absent /\ pglib.gap = Absent)

(* C4: loading a record whose numeric field is unparsable or absent never     *)
(* raises; stated for load_results: every file that exists is loaded and      *)
(* analyzed with all its rows.                                                *)
C4_LoadNeverRaises ==
    /\ mexc = "none"
    /\ \A k \in 1..Len(Methods) :
          (mfiles[MethodFiles[k]].exists /\ mfiles[MethodFiles[k]].rows # <<>>
              /\ (mi > k \/ mpc # "loop"))
            => \E j \in DOMAIN all_stats :
                  /\ all_stats[j].method = Methods[k]
                  /\ all_stats[j].total_cases = Len(mfiles[MethodFiles[k]].rows)

\* every file that exists holds at least one converged row
EveryFileHasConverged ==
    \A f \in FileNames : files[f].exists => ConvergedIdx(files[f].rows) # {}

(* C5: whatever subset of the expected files is absent, when every present    *)
(* file holds a converged row, main runs its four stages in order and ends    *)
(* without an exception: no stage is left out and none raises.                *)
C5_MissingFilesNeverFail ==
    EveryFileHasConverged =>
        /\ pc # "raised"
        /\ exc = "none"
        /\ pc = "done" =>
              /\ pglib.status = IF files[PglibFile].exists THEN "ok" ELSE "not_found"
              /\ pfdelta.status = "ok"
              /\ opfdata.status = IF files[OpfdataFile].exists THEN "ok" ELSE "not_found"
              /\ latex.status = "ok"

----------------------------------------------------------------------------
(* Objective-gap metrics of the full-network suite *)

Gaps(rows) == [i \in DOMAIN rows |-> Value(rows[i].objective_gap_rel)]

\* the converged rows with objective_value > 0
WithObjectiveIdx(rows) ==
    {i \in ConvergedIdx(rows) : Value(rows[i].objective_value) > 0}

\* the converged rows with baseline_objective > 0
WithBaselineIdx(rows) ==
    {i \in ConvergedIdx(rows) : Value(rows[i].baseline_objective) > 0}

RECURSIVE SumOver(_, _)
SumOver(val, I) ==
    IF I = {} THEN 0
    ELSE LET i == CHOOSE i \in I : TRUE IN val[i] + SumOver(val, I \ {i})

\* blk is the gap block of analyze_pglib taken over exactly the rows I
GapBlockOver(blk, rows, I) ==
    IF I = {} THEN blk = Absent
    ELSE /\ blk # Absent
         /\ \E m \in I : /\ blk[1].median = Gaps(rows)[m] * 100
                         /\ AtRank(Gaps(rows)[m], Gaps(rows), I, Cardinality(I) \div 2)
         /\ blk[1].mean = Rat(SumOver(Gaps(rows), I) * 100, Cardinality(I))
         /\ \E m \in I : /\ blk[1].min = Gaps(rows)[m] * 100
                         /\ \A i \in I : Gaps(rows)[m] <= Gaps(rows)[i]
         /\ \E m \in I : /\ blk[1].max = Gaps(rows)[m] * 100
                         /\ \A i \in I : Gaps(rows)[m] >= Gaps(rows)[i]

\* line is the "PGLib:" line of generate_latex_table with its gap over the rows I
LatexGapOver(line, rows, I) ==
    line # Absent =>
        \E m \in I : /\ line[1].gap = Gaps(rows)[m] * 100
                     /\ AtRank(Gaps(rows)[m], Gaps(rows), I, Cardinality(I) \div 2)

----------------------------------------------------------------------------
(* Violation counts of analyze_method *)

VmValues(rows) == [i \in DOMAIN rows |-> Value(rows[i].max_vm_violation_pu)]
BranchValues(rows) == [i \in DOMAIN rows |-> Value(rows[i].max_branch_flow_violation_mva)]

\* the rows are all converged, with vm violations 0, 1e-7, 2e-6, 1e-3 in this order
IsVmExample(rows) ==
    /\ ConvergedIdx(rows) = DOMAIN rows
    /\ VmValues(rows) = <<0, 1, 20, 10000>>

(* C7 as stated: for the vm violations [0, 1e-7, 2e-6, 1e-3] on converged     *)
(* records, cases_with_vm_violation is exactly 1.                             *)
C7_ExampleCountsOne ==
    \A k \in DOMAIN all_stats :
        (~all_stats[k].empty /\ IsVmExample(RowsOf(all_stats[k].method)))
            => all_stats[k].cases_with_vm_violation = 1

(* C7 as amended: for the vm violations [0, 1e-7, 2e-6, 1e-3] on converged    *)
(* records, cases_with_vm_violation is exactly 2: 2e-6 and 1e-3 both exceed   *)
(* 1e-6.                                                                      *)
C7_ExampleCountsTwo ==
    \A k \in DOMAIN all_stats :
        (~all_stats[k].empty /\ IsVmExample(RowsOf(all_stats[k].method)))
            => all_stats[k].cases_with_vm_violation = 2

\* the example has been analyzed
C7_Witness ==
    \E k \in DOMAIN all_stats :
        /\ ~all_stats[k].empty
        /\ IsVmExample(RowsOf(all_stats[k].method))

(* C8: for a non-empty result set, cases_with_vm_violation is the number of   *)
(* converged records with max_vm_violation_pu > 1e-6 and                      *)
(* cases_with_branch_violation the number of converged records with           *)
(* max_branch_flow_violation_mva > 1e-3: a value equal to the tolerance and a *)
(* value on a non-converged record are not counted.                           *)
C8_ViolationCounts ==
    \A k \in DOMAIN all_stats :
        LET st == all_stats[k]
            rows == RowsOf(st.method)
        IN  ~st.empty =>
              /\ st.cases_with_vm_violation =
                    \* 1e-6 p.u. is 10 units of 1e-7 p.u.
                    Cardinality({i \in ConvergedIdx(rows) : VmValues(rows)[i] > 10})
              /\ st.cases_with_branch_violation =
                    \* 1e-3 MVA is 10 units of 1e-4 MVA
                    Cardinality({i \in ConvergedIdx(rows) : BranchValues(rows)[i] > 10})

\* analyzed: a converged record at a tolerance (not counted) beside one counted,
\* and a non-converged record above a tolerance
C8_Witness ==
    \E k \in DOMAIN all_stats :
        LET st == all_stats[k]
            rows == RowsOf(st.method)
        IN  /\ ~st.empty
            /\ \E i \in ConvergedIdx(rows) : VmValues(rows)[i] = 10
            /\ st.cases_with_vm_violation = 1
            /\ st.cases_with_branch_violation = 1
            /\ st.total_cases = 2

C8_WitnessNotConverged ==
    \E k \in DOMAIN all_stats :
        LET st == all_stats[k]
            rows == RowsOf(st.method)
        IN  /\ ~st.empty
            /\ \E i \in DOMAIN rows \ ConvergedIdx(rows) :
                    VmValues(rows)[i] > 10 /\ BranchValues(rows)[i] > 10
            /\ st.cases_with_vm_violation = 0

----------------------------------------------------------------------------
(* Percentiles of analyze_opfdata *)

\* floor(n * P / 100)
PercentileIdx(n, P) == (n * P) \div 100

\* blk (scaled by `scale`) reports, of the values val over the rows I, the
\* elements at the indices floor(n*10/100), floor(n/2) and floor(n*90/100) of
\* their ascending order
PercentilesOver(blk, val, I, scale) ==
    LET n == Cardinality(I)
    IN  /\ PercentileIdx(n, 10) \in 0..(n - 1)
        /\ PercentileIdx(n, 90) \in 0..(n - 1)
        /\ \E a, m, b \in I :
              /\ blk.p10 = val[a] * scale
              /\ AtRank(val[a], val, I, PercentileIdx(n, 10))
              /\ blk.median = val[m] * scale
              /\ AtRank(val[m], val, I, n \div 2)
              /\ blk.p90 = val[b] * scale
              /\ AtRank(val[b], val, I, PercentileIdx(n, 90))
        /\ blk.p10 <= blk.median
        /\ blk.median <= blk.p90

(* C9: for every non-empty sequence of n values analyze_opfdata summarizes    *)
(* (solve times and gaps of the converged records), the reported P10 and P90  *)
(* are the elements at the indices floor(n*10/100) and floor(n*90/100) of the *)
(* sorted sequence, both indices lie in 0..n-1, the median is the element at  *)
(* floor(n/2), and P10 <= median <= P90.                                      *)
C9_Percentiles ==
    LET rows == files[OpfdataFile].rows
        I == ConvergedIdx(rows)
    IN  /\ opfdata.time # Absent =>
              PercentilesOver(opfdata.time[1], SolveTimes(rows), I, 1)
        /\ opfdata.gap # Absent =>
              PercentilesOver(opfdata.gap[1], Gaps(rows), I, 100)
        /\ (opfdata.status = "ok" /\ I # {}) =>
              (opfdata.time # Absent /\ opfdata.gap # Absent)

\* ten or more converged records, so that the P10 index is not 0, with P10, the
\* median and P90 not all the same element
C9_Witness ==
    /\ opfdata.status = "ok"
    /\ Cardinality(ConvergedIdx(files[OpfdataFile].rows)) >= 10
    /\ opfdata.time # Absent
    /\ opfdata.time[1].p10 < opfdata.time[1].p90
    /\ opfdata.gap[1].p10 < opfdata.gap[1].median

----------------------------------------------------------------------------
(* Size buckets of analyze_pglib *)

Buses(rows) == [i \in DOMAIN rows |-> Value(rows[i].num_buses)]

InBucket(c, buses) ==
    CASE c = Small -> buses < 500
      [] c = Medium -> 500 <= buses /\ buses < 2000
      [] c = Large -> buses >= 2000

\* the number of elements of seq equal to r
Occurrences(seq, r) == Cardinality({i \in DOMAIN seq : seq[i] = r})

C10_WitnessNotConverged ==
    LET rows == files[PglibFile].rows
        I == ConvergedIdx(rows)
    IN  /\ pglib.status = "ok"
        /\ I # {}
        /\ DOMAIN rows \ I # {}
        /\ Len(pglib.by_size) = 1

----------------------------------------------------------------------------
(* The two renderers of analyze_results.py *)

MethodIdx(method) == CHOOSE k \in 1..Len(Methods) : Methods[k] = method

\* the methods whose file exists and holds at least one row, in the order of main
SummarizedMethods ==
    SelectSeq(Methods, LAMBDA m : /\ mfiles[MethodFiles[MethodIdx(m)]].exists
                                  /\ mfiles[MethodFiles[MethodIdx(m)]].rows # <<>>)

\* the mean of val over I as q, 0 for no value
MeanOrZero(q, val, I) ==
    IF I = {} THEN RatEq(q, Rat(0, 1))
    ELSE q.den # 0 /\ RatEq(q, Rat(SumOver(val, I), Cardinality(I)))

\* m is the largest of val over I, 0 for no value
MaxOrZero(m, val, I) ==
    IF I = {} THEN m = 0
    ELSE (\E i \in I : val[i] = m) /\ (\A i \in I : val[i] <= m)

GapsPct(rows) == [i \in DOMAIN rows |-> Value(rows[i].objective_gap_rel) * 100]

\* row shows the six values of the summary of `method`, taken from its file
RowShows(row, method) ==
    LET rows == RowsOf(method)
        I == ConvergedIdx(rows)
    IN  /\ row.method = method
        /\ row.converged = Cardinality(I)
        /\ row.total_cases = Len(rows)
        /\ MeanOrZero(row.objective_gap_mean_pct, GapsPct(rows), WithBaselineIdx(rows))
        /\ MeanOrZero(row.solve_time_mean_ms, SolveTimes(rows), I)
        /\ MaxOrZero(row.vm_violation_max_pu, VmValues(rows), I)
        /\ MaxOrZero(row.branch_violation_max_mva, BranchValues(rows), I)

TableShows(table) ==
    /\ Len(table) = Len(SummarizedMethods)
    /\ \A k \in DOMAIN table : RowShows(table[k], SummarizedMethods[k])

\* all_stats as the loop of main left it: one summary per file that exists
StatsAsProduced ==
    LET loaded == SelectSeq(Methods, LAMBDA m : mfiles[MethodFiles[MethodIdx(m)]].exists)
    IN  [k \in 1..Len(loaded) |->
            analyze_method(loaded[k], load_results(RowsOf(loaded[k])))]

(* C11: print_summary_table and print_latex_table each emit one row per       *)
(* non-empty summary, in the order the loop of main produced the summaries;   *)
(* row k of both shows the same converged, total_cases,                       *)
(* objective_gap_mean_pct, solve_time_mean_ms, vm_violation_max_pu and        *)
(* branch_violation_max_mva of method k (0 for a metric that is absent); and  *)
(* all_stats is after both renderers what the loop left.                      *)
C11_RenderersAgree ==
    /\ mpc \in {"print_latex_table", "done"} => TableShows(summary_table)
    /\ mpc = "done" =>
          /\ TableShows(latex_table)
          /\ Len(latex_table) = Len(summary_table)
          /\ \A k \in DOMAIN latex_table :
                \A f \in {"method", "converged", "total_cases", "objective_gap_mean_pct",
                          "solve_time_mean_ms", "vm_violation_max_pu",
                          "branch_violation_max_mva"} :
                    latex_table[k][f] = summary_table[k][f]
    /\ mpc \in {"print_summary_table", "print_latex_table", "done"} =>
          all_stats = StatsAsProduced

\* both renderers ran over three summaries: an empty one, which they skip, one
\* without a gap metric, shown as 0, and one with a mean time that is no maximum
C11_Witness ==
    /\ mpc = "done"
    /\ Len(all_stats) = 3
    /\ Len(latex_table) = 2
    /\ \E k \in DOMAIN all_stats : all_stats[k].empty
    /\ \E k \in DOMAIN all_stats :
          /\ ~all_stats[k].empty
          /\ all_stats[k].converged > 0
          /\ all_stats[k].objective_gap_mean_pct = Absent
    /\ latex_table[1].solve_time_mean_ms.num > 0
    /\ latex_table[2].vm_violation_max_pu > 0

----------------------------------------------------------------------------
(* Contingency-sweep suite *)

\* the files of `case` that exist
CaseFiles(case) ==
    {f \in PfdeltaFiles : /\ files[f].exists
                          /\ \E j \in 1..Len(Contingencies) :
                                f = pfdelta_file(case, Contingencies[j])}

FileSamples == [f \in FileNames |-> Len(files[f].rows)]
FileConverged == [f \in FileNames |-> Cardinality(ConvergedIdx(files[f].rows))]
FileTimeSum ==
    [f \in FileNames |-> SumOver(SolveTimes(files[f].rows), ConvergedIdx(files[f].rows))]

CaseSamples == [c \in {Cases[i] : i \in 1..Len(Cases)} |-> SumOver(FileSamples, CaseFiles(c))]
CaseConverged == [c \in {Cases[i] : i \in 1..Len(Cases)} |-> SumOver(FileConverged, CaseFiles(c))]
CaseTimeSum == [c \in {Cases[i] : i \in 1..Len(Cases)} |-> SumOver(FileTimeSum, CaseFiles(c))]

\* line is the line of `case`: its counts over its present files, the rate, and
\* the mean solve time of its converged records (0 when it has none)
CaseLineShows(line, case) ==
    /\ line.case = case
    /\ line.samples = CaseSamples[case]
    /\ line.converged = CaseConverged[case]
    /\ line.rate.den # 0
    /\ RatEq(line.rate, Rat(100 * CaseConverged[case], CaseSamples[case]))
    /\ line.avg_time.den # 0
    /\ IF CaseConverged[case] = 0
       THEN RatEq(line.avg_time, Rat(0, 1))
       ELSE RatEq(line.avg_time, Rat(CaseTimeSum[case], CaseConverged[case]))

\* only pfdelta_case30_n.csv exists, with two converged rows of 5 and 7 ms
OnlyCase30N ==
    /\ \A f \in FileNames : files[f].exists <=> f = pfdelta_file("case30", "n")
    /\ ConvergedIdx(files[pfdelta_file("case30", "n")].rows) = {1, 2}
    /\ SolveTimes(files[pfdelta_file("case30", "n")].rows) = <<5, 7>>

(* C12: whatever subset of the nine case x contingency files is present, once *)
(* analyze_pfdelta has run, each case's line shows samples and converged      *)
(* summed over that case's present files and the mean solve time of its       *)
(* converged records (0 when there are none); a case with zero samples prints *)
(* no line; the total is the sum of the lines and is the PFDelta total of     *)
(* generate_latex_table; no gap metric is reported; and with only             *)
(* pfdelta_case30_n.csv present (two converged rows, 5 and 7 ms) the report   *)
(* is case30 2/2 (100%), avg 6 ms, total 2/2 (100%).                          *)
C12_ContingencySweep ==
    LET counted == SelectSeq(Cases, LAMBDA c : CaseSamples[c] > 0)
        all_samples == SumOver(FileSamples, PfdeltaFiles)
        all_converged == SumOver(FileConverged, PfdeltaFiles)
        lines == pfdelta.cases
    IN  /\ pfdelta.status = "ok" =>
              /\ Len(lines) = Len(counted)
              /\ \A k \in DOMAIN lines : CaseLineShows(lines[k], counted[k])
              /\ (pfdelta.total = Absent) <=> (all_samples = 0)
              /\ pfdelta.total # Absent =>
                    /\ pfdelta.total[1].samples = Sum([k \in DOMAIN lines |-> lines[k].samples])
                    /\ pfdelta.total[1].converged
                          = Sum([k \in DOMAIN lines |-> lines[k].converged])
                    /\ pfdelta.total[1].samples = all_samples
                    /\ pfdelta.total[1].converged = all_converged
                    /\ RatEq(pfdelta.total[1].rate, Rat(100 * all_converged, all_samples))
              /\ "gap" \notin DOMAIN pfdelta
              /\ \A k \in DOMAIN lines : "gap" \notin DOMAIN lines[k]
              /\ OnlyCase30N =>
                    /\ Len(lines) = 1
                    /\ lines[1].case = "case30"
                    /\ lines[1].converged = 2 /\ lines[1].samples = 2
                    /\ RatEq(lines[1].rate, Rat(100, 1))
                    /\ RatEq(lines[1].avg_time, Rat(6, 1))
                    /\ pfdelta.total[1].converged = 2 /\ pfdelta.total[1].samples = 2
                    /\ RatEq(pfdelta.total[1].rate, Rat(100, 1))
        /\ latex.status = "ok" =>
              /\ (latex.pfdelta = Absent) <=> (pfdelta.total = Absent)
              /\ latex.pfdelta # Absent =>
                    /\ latex.pfdelta[1].total = pfdelta.total[1].samples
                    /\ latex.pfdelta[1].converged = pfdelta.total[1].converged

\* the whole run is over; one case has a file but no sample and prints no line,
\* one has samples but no converged record (average 0), one has files missing
C12_Witness ==
    /\ pc = "done"
    /\ Len(pfdelta.cases) = 2
    /\ \E i \in 1..Len(Cases) : CaseFiles(Cases[i]) # {} /\ CaseSamples[Cases[i]] = 0
    /\ \E k \in DOMAIN pfdelta.cases :
          pfdelta.cases[k].converged = 0 /\ pfdelta.cases[k].avg_time = Rat(0, 1)
    /\ \E k \in DOMAIN pfdelta.cases :
          pfdelta.cases[k].converged = 3 /\ pfdelta.cases[k].samples = 4
    /\ latex.pfdelta # Absent

\* a converged record whose solve time is no number counts as 0 ms in its
\* case's average: 4 ms over two records
C12_WitnessUnparsedTime ==
    /\ pc = "done"
    /\ \E k \in DOMAIN pfdelta.cases :
          /\ pfdelta.cases[k].case = "case118"
          /\ pfdelta.cases[k].converged = 2
          /\ RatEq(pfdelta.cases[k].avg_time, Rat(2, 1))

\* the run of the example is over
C12_WitnessExample ==
    /\ pc = "done"
    /\ OnlyCase30N

====
